---- MODULE Spec2Model ----
(***************************************************************************)
(* Model of the Sudoku game of src/app.jsx: the board generator            *)
(* (isSafe, solveSudoku, generateFullBoard, generatePuzzle) and the play   *)
(* session held in the App component's state (startNewGame,                *)
(* handleNumberInput, handleErase, checkCompletion, the memo toggle).      *)
(*                                                                         *)
(* Boards are board[row][col] with row, col in 0..8 and BLANK = 0, as in   *)
(* the source.  Math.random is a stream of numbers drawn from a seed: the  *)
(* nondeterminism of the program is the choice of the seed.                *)
(***************************************************************************)
EXTENDS Integers, Sequences, FiniteSets, TLC

\* The state of the App component: one variable per useState, and mounted:
\* whether the effect of the first render has run.
VARIABLES mounted, difficulty, initialBoard, board, solution, selectedCell, memos,
          isMemoMode, mistakes, isComplete

\* A call of solveSudoku taken step by step: the board it was called with
\* and where the call is (NULL both while no call is looked at).
VARIABLES solveEntry, solveRun

vars == <<mounted, difficulty, initialBoard, board, solution, selectedCell, memos,
          isMemoMode, mistakes, isComplete, solveEntry, solveRun>>

\* ------------------------------------------------------------------ bounds

\* Seeds of the random source tried by the model.
NumSeeds == 2
\* Cells the player clicks: the diagonal cells (0,0), (2,2), ... .
NumClick == 3
\* Digits the player types at a cell: the solution's digit and the next ones.
NumDigitChoices == 2
\* mistakes is unbounded in the program; the model stops counting here.
MaxMistakes == 2
\* Digits the player notes in memos, over all cells.
MaxMemos == 2
\* Steps of solveSudoku and turns of the removal loop the model runs.
MaxSolveSteps == 2000
MaxRemoveTurns == 400

\* ------------------------------------------------------- program constants

BLANK == 0
GRID_SIZE == 9
EasyBudget == 30
MediumBudget == 45
HardBudget == 55

Idx == 0 .. (GRID_SIZE - 1)
Digits == 1 .. 9
Difficulties == {"Easy", "Medium", "Hard"}
Seeds == 0 .. (NumSeeds - 1)
NULL == <<>>

\* ------------------------------------------------------------ Math.random

\* The random source: a linear congruential stream.  RandNext advances it,
\* RandInt(x, n) is Math.floor(Math.random() * n) for the number at x.
RandNext(x) == (x * 75 + 74) % 65537
RandInt(x, n) == (x * n) \div 65537

\* One pick of the shuffle: the random source chooses one of the numbers
\* left and it goes to the end of the output.
ShufflePick(sh) ==
    IF Len(sh.rest) = 0 THEN sh
    ELSE LET x == RandNext(sh.rng)
             j == RandInt(x, Len(sh.rest)) + 1
         IN  [rest |-> SubSeq(sh.rest, 1, j - 1) \o SubSeq(sh.rest, j + 1, Len(sh.rest)),
              nums |-> Append(sh.nums, sh.rest[j]),
              rng |-> x]

ShufflePicks(S) == {ShufflePick(sh) : sh \in S}

ShuffleResult(sh) == [nums |-> sh.nums, rng |-> sh.rng]

\* [1, 2, 3, 4, 5, 6, 7, 8, 9].sort(() => Math.random() - 0.5): a
\* permutation of 1..9 picked by the random source, in nine picks.
\* Each pick is taken of the value the pick before it left (a set of one
\* state of the shuffle), so no pick is computed twice.
Shuffle(rng) ==
    CHOOSE out \in {ShuffleResult(sh) : sh \in
        ShufflePicks(ShufflePicks(ShufflePicks(ShufflePicks(ShufflePicks(
        ShufflePicks(ShufflePicks(ShufflePicks(ShufflePicks(
            {[rest |-> <<1, 2, 3, 4, 5, 6, 7, 8, 9>>, nums |-> <<>>, rng |-> rng]}
        )))))))))} : TRUE

\* ------------------------------------------------------------- the boards

getEmptyBoard == [r \in Idx |-> [c \in Idx |-> BLANK]]

\* isSafe without the check of the 3x3 box.
isSafeRowCol(b, row, col, num) ==
    /\ ~ \E x \in Idx : b[row][x] = num
    /\ ~ \E x \in Idx : b[x][col] = num

isSafe(b, row, col, num) ==
    /\ ~ \E x \in Idx : b[row][x] = num
    /\ ~ \E x \in Idx : b[x][col] = num
    /\ ~ \E i \in 0 .. 2 : \E j \in 0 .. 2 :
           b[i + (row - (row % 3))][j + (col - (col % 3))] = num

\* The cell of index k in row-major order.
CellAt(k) == <<k \div GRID_SIZE, k % GRID_SIZE>>

BlankIndexes(b) ==
    {k \in 0 .. (GRID_SIZE * GRID_SIZE - 1) :
        b[k \div GRID_SIZE][k % GRID_SIZE] = BLANK}

Least(S) == CHOOSE k \in S : \A j \in S : k <= j

\* The first BLANK cell in row-major order, as the two nested loops of
\* solveSudoku find it; NULL when the board has none.
FirstBlank(b) ==
    IF BlankIndexes(b) = {} THEN NULL ELSE CellAt(Least(BlankIndexes(b)))

\* The indexes after the i-th of the candidates isSafe accepts on this board.
SafeAfter(b, row, col, nums, i) ==
    {j \in (i + 1) .. Len(nums) : isSafe(b, row, col, nums[j])}

\* The index of the first candidate after the i-th that isSafe accepts on
\* this board, or Len(nums) + 1: the for (let num of nums) loop passes over
\* the candidates isSafe refuses without touching the board.
NextSafe(b, row, col, nums, i) ==
    IF SafeAfter(b, row, col, nums, i) = {} THEN Len(nums) + 1
    ELSE Least(SafeAfter(b, row, col, nums, i))

\* solveSudoku is recursive; the model runs it with its call stack made
\* explicit.  A frame is one active call inside its candidate loop: the cell
\* it is filling, its shuffled candidates and the index of the candidate it
\* has placed.  pc is where control is:
\*   "call"   entering solveSudoku(board)
\*   "loop"   in the call on top of the stack, about to try the next candidate
\*   "ret"    a call has returned ok to the call on top of the stack
\*   "done"   the outermost call has returned ok
\* The board is the one array every call mutates in place.
SolveStart(b, rng) ==
    [board |-> b, rng |-> rng, stack |-> <<>>, pc |-> "call", ok |-> FALSE]

\* The call has found the blank cell and shuffled its candidates.
SolveEnter(m, cell, sh) ==
    [m EXCEPT !.pc = "loop", !.rng = sh.rng,
              !.stack = Append(@, [row |-> cell[1], col |-> cell[2],
                                   nums |-> sh.nums, i |-> 0])]

\* Entering solveSudoku: no blank cell, return true; else start the loop.
SolveCall(m, cell) ==
    IF cell = NULL THEN [m EXCEPT !.pc = "ret", !.ok = TRUE]
    ELSE SolveEnter(m, cell, Shuffle(m.rng))

\* SolveTry answering true once the candidates are used up.
SolveTryGivesUp(m, f, j) ==
    IF j > Len(f.nums)
    THEN [m EXCEPT !.pc = "ret", !.ok = TRUE, !.stack = SubSeq(@, 1, Len(@) - 1)]
    ELSE [m EXCEPT !.pc = "call", !.board[f.row][f.col] = f.nums[j],
                   !.stack[Len(m.stack)].i = j]

\* The loop of frame f goes to its candidate j: past the last one, return
\* false; else place it and call solveSudoku.
SolveTry(m, f, j) ==
    IF j > Len(f.nums)
    THEN [m EXCEPT !.pc = "ret", !.ok = FALSE, !.stack = SubSeq(@, 1, Len(@) - 1)]
    ELSE [m EXCEPT !.pc = "call", !.board[f.row][f.col] = f.nums[j],
                   !.stack[Len(m.stack)].i = j]

SolveLoop(m, f) == SolveTry(m, f, NextSafe(m.board, f.row, f.col, f.nums, f.i))

\* SolveBack leaving the digit it tried in the cell.
SolveBackNoUndo(m, f) ==
    IF m.ok THEN [m EXCEPT !.stack = SubSeq(@, 1, Len(@) - 1)]
    ELSE [m EXCEPT !.pc = "loop"]

\* SolveBack that does not hand a true answer on to its caller.
SolveBackNeverReturns(m, f) ==
    IF m.ok THEN m
    ELSE [m EXCEPT !.pc = "loop", !.board[f.row][f.col] = BLANK]

\* A call has returned m.ok to frame f: true, return true; false, reset the
\* cell and go on with the loop.
SolveBack(m, f) ==
    IF m.ok THEN [m EXCEPT !.stack = SubSeq(@, 1, Len(@) - 1)]
    ELSE [m EXCEPT !.pc = "loop", !.board[f.row][f.col] = BLANK]

SolveStep(m) ==
    IF m.pc = "call" THEN SolveCall(m, FirstBlank(m.board))
    ELSE IF m.pc = "loop" THEN SolveLoop(m, m.stack[Len(m.stack)])
    ELSE IF m.pc = "ret"
    THEN IF Len(m.stack) = 0 THEN [m EXCEPT !.pc = "done"]
         ELSE SolveBack(m, m.stack[Len(m.stack)])
    ELSE m

RECURSIVE SolveRun(_, _)
\* n steps of the solver from m (none once it is done), computed by halves
\* to keep the evaluation shallow.
SolveRun(m, n) ==
    IF n = 0 \/ m.pc = "done" THEN m
    ELSE IF n = 1 THEN SolveStep(m)
    ELSE SolveRun(SolveRun(m, n \div 2), n - (n \div 2))

SolveResult(m) ==
    [halted |-> m.pc = "done", ok |-> m.ok, board |-> m.board, rng |-> m.rng]

\* solveSudoku(board): the board as the call leaves it and the value it
\* returns; halted is FALSE when the call is still running after
\* MaxSolveSteps steps.
solveSudoku(b, rng) == SolveResult(SolveRun(SolveStart(b, rng), MaxSolveSteps))

\* The empty board with the shuffled numbers as its row 0, solved.  The
\* value solveSudoku returns is not looked at: the board is used as the
\* solver left it.
SolveFirstRow(sh) ==
    solveSudoku([getEmptyBoard EXCEPT ![0] = [c \in Idx |-> sh.nums[c + 1]]], sh.rng)

generateFullBoard(rng) == SolveFirstRow(Shuffle(rng))

Budget(diff) ==
    IF diff = "Easy" THEN EasyBudget
    ELSE IF diff = "Medium" THEN MediumBudget
    ELSE HardBudget

\* The removal loop counting every turn, whether or not the cell held a
\* digit.
RemoveAtEveryTurn(m, row, col, rng) ==
    [puzzle |-> [m.puzzle EXCEPT ![row][col] = BLANK],
     attempts |-> m.attempts - 1, rng |-> rng]

\* The random cell (row, col) is looked at: blanked and counted if it holds
\* a digit.
RemoveAt(m, row, col, rng) ==
    IF m.puzzle[row][col] # BLANK
    THEN [puzzle |-> [m.puzzle EXCEPT ![row][col] = BLANK],
          attempts |-> m.attempts - 1, rng |-> rng]
    ELSE [m EXCEPT !.rng = rng]

\* One turn of the while (attempts > 0) loop of generatePuzzle.
RemoveStep(m) ==
    IF m.attempts > 0
    THEN RemoveAt(m, RandInt(RandNext(m.rng), GRID_SIZE),
                  RandInt(RandNext(RandNext(m.rng)), GRID_SIZE),
                  RandNext(RandNext(m.rng)))
    ELSE m

RECURSIVE RemoveRun(_, _)
\* n turns of the removal loop from m (none once attempts is 0), by halves.
RemoveRun(m, n) ==
    IF n = 0 \/ m.attempts = 0 THEN m
    ELSE IF n = 1 THEN RemoveStep(m)
    ELSE RemoveRun(RemoveRun(m, n \div 2), n - (n \div 2))

\* generatePuzzle with puzzle an alias of solution: the removal loop blanks
\* the cells of both.
PuzzleResultAliased(full, m) ==
    [halted |-> full.halted /\ m.attempts = 0,
     solution |-> m.puzzle, puzzle |-> m.puzzle]

PuzzleResult(full, m) ==
    [halted |-> full.halted /\ m.attempts = 0,
     solution |-> full.board, puzzle |-> m.puzzle]

\* The cells of a copy of the full board are removed.
RemoveFrom(diff, full) ==
    PuzzleResult(full, RemoveRun([puzzle |-> full.board, attempts |-> Budget(diff),
                                  rng |-> full.rng], MaxRemoveTurns))

\* generatePuzzle(difficulty): halted is FALSE when the solver or the
\* removal loop is still running at the model's step bound.
generatePuzzle(diff, rng) == RemoveFrom(diff, generateFullBoard(rng))

\* generatePuzzle for every difficulty and seed of the model, tabulated
\* (f @@ <<>> is f).
Generated ==
    [d \in Difficulties |-> [s \in Seeds |-> generatePuzzle(d, s)] @@ <<>>] @@ <<>>

\* ------------------------------------------------------------ the session

\* The state as one value, for the handlers, which are functions of it.
App ==
    [difficulty |-> difficulty, initialBoard |-> initialBoard, board |-> board,
     solution |-> solution, selectedCell |-> selectedCell, memos |-> memos,
     isMemoMode |-> isMemoMode, mistakes |-> mistakes, isComplete |-> isComplete]

\* The useState initial values.
UseState ==
    [difficulty |-> "Easy", initialBoard |-> getEmptyBoard, board |-> getEmptyBoard,
     solution |-> getEmptyBoard, selectedCell |-> NULL, memos |-> <<>>,
     isMemoMode |-> FALSE, mistakes |-> 0, isComplete |-> FALSE]

\* The key `${r}-${c}` of a cell in memos.
MemoKey(r, c) == ToString(r) \o "-" \o ToString(c)

\* memos[key] || []
MemosAt(m, key) == IF key \in DOMAIN m THEN m[key] ELSE <<>>

Includes(seq, x) == \E i \in 1 .. Len(seq) : seq[i] = x

RECURSIVE Filter(_, _)
\* seq.filter(n => n !== x)
Filter(seq, x) ==
    IF Len(seq) = 0 THEN <<>>
    ELSE IF seq[1] = x THEN Filter(Tail(seq), x)
    ELSE <<seq[1]>> \o Filter(Tail(seq), x)

RECURSIVE Insert(_, _)
Insert(sorted, x) ==
    IF Len(sorted) = 0 THEN <<x>>
    ELSE IF x < sorted[1] THEN <<x>> \o sorted
    ELSE <<sorted[1]>> \o Insert(Tail(sorted), x)

RECURSIVE Sort(_)
\* seq.sort() on single digits: ascending.
Sort(seq) == IF Len(seq) = 0 THEN <<>> ELSE Insert(Sort(Tail(seq)), seq[1])

\* startNewGame without setMistakes(0).
NewGameKeepingMistakes(st, g) ==
    [st EXCEPT !.solution = g.solution,
               !.initialBoard = g.puzzle,
               !.board = g.puzzle,
               !.memos = <<>>,
               !.isComplete = FALSE,
               !.selectedCell = NULL]

\* The state setters of startNewGame, g being what generatePuzzle returned.
NewGame(st, g) ==
    [st EXCEPT !.solution = g.solution,
               !.initialBoard = g.puzzle,
               !.board = g.puzzle,
               !.memos = <<>>,
               !.mistakes = 0,
               !.isComplete = FALSE,
               !.selectedCell = NULL]

startNewGame(st, diff, rng) == NewGame(st, Generated[diff][rng])

\* checkCompletion comparing row 0 only.
checkCompletionRow0(st, currentBoard, solutionBoard) ==
    IF \E j \in Idx : currentBoard[0][j] # solutionBoard[0][j]
    THEN st
    ELSE [st EXCEPT !.isComplete = TRUE]

checkCompletion(st, currentBoard, solutionBoard) ==
    IF \E i \in Idx : \E j \in Idx : currentBoard[i][j] # solutionBoard[i][j]
    THEN st
    ELSE [st EXCEPT !.isComplete = TRUE]

\* handleNumberInput with isMemoMode set.
\* The memo branch without the includes test: the digit is always added.
MemoInputAlwaysAdds(st, r, c, num) ==
    LET key == MemoKey(r, c)
        currentMemos == MemosAt(st.memos, key)
    IN  [st EXCEPT !.memos = (key :> Sort(Append(currentMemos, num))) @@ st.memos]

MemoInput(st, r, c, num) ==
    LET key == MemoKey(r, c)
        currentMemos == MemosAt(st.memos, key)
        newMemos == IF Includes(currentMemos, num)
                    THEN Filter(currentMemos, num)
                    ELSE Sort(Append(currentMemos, num))
    IN  [st EXCEPT !.memos = (key :> newMemos) @@ st.memos]

\* The placement branch leaving the memo of the cell in place when the
\* digit is correct.
DigitInputKeepMemo(st, r, c, num) ==
    LET toggle == st.board[r][c] = num
        newBoard == [st.board EXCEPT ![r][c] = IF toggle THEN BLANK ELSE num]
        wrong == ~toggle /\ num # st.solution[r][c]
        st1 == [st EXCEPT !.mistakes = IF wrong THEN @ + 1 ELSE @,
                          !.board = newBoard]
    IN  checkCompletion(st1, newBoard, st.solution)

\* The placement branch judging the digit before the toggle: removing a
\* wrong digit by typing it again counts as a mistake.
DigitInputCountToggle(st, r, c, num) ==
    LET key == MemoKey(r, c)
        toggle == st.board[r][c] = num
        newBoard == [st.board EXCEPT ![r][c] = IF toggle THEN BLANK ELSE num]
        wrong == num # st.solution[r][c]
        clear == ~toggle /\ ~wrong /\ key \in DOMAIN st.memos
        st1 == [st EXCEPT !.mistakes = IF wrong THEN @ + 1 ELSE @,
                          !.memos = IF clear
                                    THEN [k \in DOMAIN @ \ {key} |-> @[k]]
                                    ELSE @,
                          !.board = newBoard]
    IN  checkCompletion(st1, newBoard, st.solution)

\* The placement branch checking completion on board, the state of the
\* last render, and not on newBoard.
DigitInputStaleCheck(st, r, c, num) ==
    LET key == MemoKey(r, c)
        toggle == st.board[r][c] = num
        newBoard == [st.board EXCEPT ![r][c] = IF toggle THEN BLANK ELSE num]
        wrong == ~toggle /\ num # st.solution[r][c]
        clear == ~toggle /\ ~wrong /\ key \in DOMAIN st.memos
        st1 == [st EXCEPT !.mistakes = IF wrong THEN @ + 1 ELSE @,
                          !.memos = IF clear
                                    THEN [k \in DOMAIN @ \ {key} |-> @[k]]
                                    ELSE @,
                          !.board = newBoard]
    IN  checkCompletion(st1, st.board, st.solution)

\* The placement branch taking every annotation away when the digit is
\* correct, and not those of the cell only.
DigitInputClearAllMemos(st, r, c, num) ==
    LET key == MemoKey(r, c)
        toggle == st.board[r][c] = num
        newBoard == [st.board EXCEPT ![r][c] = IF toggle THEN BLANK ELSE num]
        wrong == ~toggle /\ num # st.solution[r][c]
        clear == ~toggle /\ ~wrong /\ key \in DOMAIN st.memos
        st1 == [st EXCEPT !.mistakes = IF wrong THEN @ + 1 ELSE @,
                          !.memos = IF clear THEN <<>> ELSE @,
                          !.board = newBoard]
    IN  checkCompletion(st1, newBoard, st.solution)

\* The placement branch that counts no mistake.
DigitInputCountsNothing(st, r, c, num) ==
    LET key == MemoKey(r, c)
        toggle == st.board[r][c] = num
        newBoard == [st.board EXCEPT ![r][c] = IF toggle THEN BLANK ELSE num]
        wrong == ~toggle /\ num # st.solution[r][c]
        clear == ~toggle /\ ~wrong /\ key \in DOMAIN st.memos
        st1 == [st EXCEPT !.memos = IF clear
                                    THEN [k \in DOMAIN @ \ {key} |-> @[k]]
                                    ELSE @,
                          !.board = newBoard]
    IN  checkCompletion(st1, newBoard, st.solution)

\* handleNumberInput with isMemoMode clear.
DigitInput(st, r, c, num) ==
    LET key == MemoKey(r, c)
        toggle == st.board[r][c] = num
        newBoard == [st.board EXCEPT ![r][c] = IF toggle THEN BLANK ELSE num]
        wrong == ~toggle /\ num # st.solution[r][c]
        clear == ~toggle /\ ~wrong /\ key \in DOMAIN st.memos
        st1 == [st EXCEPT !.mistakes = IF wrong THEN @ + 1 ELSE @,
                          !.memos = IF clear
                                    THEN [k \in DOMAIN @ \ {key} |-> @[k]]
                                    ELSE @,
                          !.board = newBoard]
    IN  checkCompletion(st1, newBoard, st.solution)

\* handleNumberInput without the check of isComplete.
handleNumberInputWhenComplete(st, num) ==
    IF st.selectedCell = NULL THEN st
    ELSE LET r == st.selectedCell[1]
             c == st.selectedCell[2]
         IN  IF st.initialBoard[r][c] # BLANK THEN st
             ELSE IF st.isMemoMode THEN MemoInput(st, r, c, num)
             ELSE DigitInput(st, r, c, num)

handleNumberInput(st, num) ==
    IF st.isComplete \/ st.selectedCell = NULL THEN st
    ELSE LET r == st.selectedCell[1]
             c == st.selectedCell[2]
         IN  IF st.initialBoard[r][c] # BLANK THEN st
             ELSE IF st.isMemoMode THEN MemoInput(st, r, c, num)
             ELSE DigitInput(st, r, c, num)

\* handleErase taking the annotations of the cell away with its digit.
handleEraseWithMemos(st) ==
    IF st.isComplete \/ st.selectedCell = NULL THEN st
    ELSE LET r == st.selectedCell[1]
             c == st.selectedCell[2]
         IN  IF st.initialBoard[r][c] # BLANK THEN st
             ELSE [st EXCEPT !.board[r][c] = BLANK,
                             !.memos = [k \in DOMAIN @ \ {MemoKey(r, c)} |-> @[k]]]

\* handleErase without the check of initialBoard.
handleEraseAnyCell(st) ==
    IF st.isComplete \/ st.selectedCell = NULL THEN st
    ELSE [st EXCEPT !.board[st.selectedCell[1]][st.selectedCell[2]] = BLANK]

\* handleErase without the check of isComplete.
handleEraseWhenComplete(st) ==
    IF st.selectedCell = NULL THEN st
    ELSE IF st.initialBoard[st.selectedCell[1]][st.selectedCell[2]] # BLANK THEN st
    ELSE [st EXCEPT !.board[st.selectedCell[1]][st.selectedCell[2]] = BLANK]

handleErase(st) ==
    IF st.isComplete \/ st.selectedCell = NULL THEN st
    ELSE LET r == st.selectedCell[1]
             c == st.selectedCell[2]
         IN  IF st.initialBoard[r][c] # BLANK THEN st
             ELSE [st EXCEPT !.board[r][c] = BLANK]

\* onClick of a cell.
selectCell(st, r, c) == [st EXCEPT !.selectedCell = <<r, c>>]

\* onClick of the memo button.
toggleMemoMode(st) == [st EXCEPT !.isMemoMode = ~st.isMemoMode]

\* onChange of the difficulty selector.
changeDifficulty(st, diff, rng) ==
    startNewGame([st EXCEPT !.difficulty = diff], diff, rng)

\* The keys handleKeyDown tells apart.
DigitKeys == {ToString(d) : d \in Digits}
EraseKeys == {"Backspace", "Delete"}
ArrowKeys == {"ArrowUp", "ArrowDown", "ArrowLeft", "ArrowRight"}
MemoKeys == {"m", "M"}

\* parseInt(e.key) for a digit key.
parseInt(key) == CHOOSE d \in Digits : ToString(d) = key

Max(a, b) == IF a >= b THEN a ELSE b
Min(a, b) == IF a <= b THEN a ELSE b

\* The cell an arrow key moves the selection to, from cell (r, c).
ArrowTarget(key, r, c) ==
    IF key = "ArrowUp" THEN <<Max(0, r - 1), c>>
    ELSE IF key = "ArrowDown" THEN <<Min(8, r + 1), c>>
    ELSE IF key = "ArrowLeft" THEN <<r, Max(0, c - 1)>>
    ELSE <<r, Min(8, c + 1)>>

\* The keydown listener: nothing once the game is complete; else the digit
\* keys, the erase keys, the arrow keys when a cell is selected, and the M
\* key, which flips isMemoMode.
handleKeyDown(st, key) ==
    IF st.isComplete THEN st
    ELSE IF key \in DigitKeys THEN handleNumberInput(st, parseInt(key))
    ELSE IF key \in EraseKeys THEN handleErase(st)
    ELSE IF key \in ArrowKeys
    THEN IF st.selectedCell = NULL THEN st
         ELSE [st EXCEPT !.selectedCell =
                   ArrowTarget(key, st.selectedCell[1], st.selectedCell[2])]
    ELSE IF key \in MemoKeys THEN [st EXCEPT !.isMemoMode = ~st.isMemoMode]
    ELSE st

\* ------------------------------------------------------- the player's inputs

\* The cells the player clicks.
ClickCells == {<<2 * k, 2 * k>> : k \in 0 .. (NumClick - 1)}

\* The digits the player types: with a cell selected, the digit of the
\* solution there and the digits after it.
DigitChoices(st) ==
    LET base == IF st.selectedCell = NULL THEN 1
                ELSE st.solution[st.selectedCell[1]][st.selectedCell[2]]
    IN  {((base + k - 1) % 9) + 1 : k \in 0 .. (NumDigitChoices - 1)}

\* The number of digits noted in memos.
MemoCount(m) ==
    LET keys == DOMAIN m
        RECURSIVE Sum(_)
        Sum(K) == IF K = {} THEN 0
                  ELSE LET k == CHOOSE k \in K : TRUE
                       IN  Len(m[k]) + Sum(K \ {k})
    IN  Sum(keys)

\* What the model leaves out: a state past its bounds on the counters.
InBounds(st) == st.mistakes <= MaxMistakes /\ MemoCount(st.memos) <= MaxMemos

\* The keys the player presses: the digits typed, an erase key, the M key
\* and an arrow key.
KeysPressed(st) ==
    {ToString(d) : d \in DigitChoices(st)} \cup {"Backspace", "m", "ArrowUp"}

\* What the model leaves out: a selection moved off the cells it clicks.
InClickCells(st) == st.selectedCell = NULL \/ st.selectedCell \in ClickCells

RECURSIVE FillFrom(_, _)
\* The player selects, in row-major order from cell k on, every blank cell
\* that is not one of ClickCells and types the digit of the solution.
FillFrom(st, k) ==
    IF k >= GRID_SIZE * GRID_SIZE THEN st
    ELSE LET r == k \div GRID_SIZE
             c == k % GRID_SIZE
         IN  IF st.board[r][c] = BLANK /\ <<r, c>> \notin ClickCells
             THEN FillFrom(handleNumberInput(selectCell(st, r, c), st.solution[r][c]),
                           k + 1)
             ELSE FillFrom(st, k + 1)

\* The state becomes st.
Becomes(st) ==
    \E n \in {st} :
        /\ difficulty' = n.difficulty
        /\ initialBoard' = n.initialBoard
        /\ board' = n.board
        /\ solution' = n.solution
        /\ selectedCell' = n.selectedCell
        /\ memos' = n.memos
        /\ isMemoMode' = n.isMemoMode
        /\ mistakes' = n.mistakes
        /\ isComplete' = n.isComplete
        /\ UNCHANGED <<solveEntry, solveRun>>

\* The seeds with which generatePuzzle returns within the model's step
\* bounds, for every difficulty.
HaltingSeeds == {s \in Seeds : \A d \in Difficulties : Generated[d][s].halted}

\* The games a session starts from: startNewGame on the mounted component,
\* for each difficulty the selector offers.
NewGames ==
    {startNewGame([UseState EXCEPT !.difficulty = d], d, s) :
        d \in Difficulties, s \in HaltingSeeds}

\* A game after the player has selected and filled in correctly every blank
\* cell the model does not click, and then clicked cell (0, 0): the end of
\* a game is then within the model's reach.
Endgames == {selectCell(FillFrom(st, 0), 0, 0) : st \in NewGames}

\* The component as constructed (useState, the mount effect still to run),
\* and the games near their end.
Init ==
    \E st \in {UseState} \cup Endgames :
        /\ mounted = (st # UseState)
        /\ difficulty = st.difficulty
        /\ initialBoard = st.initialBoard
        /\ board = st.board
        /\ solution = st.solution
        /\ selectedCell = st.selectedCell
        /\ memos = st.memos
        /\ isMemoMode = st.isMemoMode
        /\ mistakes = st.mistakes
        /\ isComplete = st.isComplete
        /\ solveEntry = NULL
        /\ solveRun = NULL

\* The effect of the first render: startNewGame().  It runs before any
\* event is handled.
Mount(rng) ==
    /\ ~mounted
    /\ rng \in HaltingSeeds
    /\ mounted' = TRUE
    /\ Becomes(startNewGame(App, difficulty, rng))

SelectCell(r, c) ==
    /\ mounted
    /\ Becomes(selectCell(App, r, c))
    /\ UNCHANGED mounted

NumberInput(num) ==
    /\ mounted
    /\ \E n \in {handleNumberInput(App, num)} : InBounds(n) /\ Becomes(n)
    /\ UNCHANGED mounted

Erase ==
    /\ mounted
    /\ Becomes(handleErase(App))
    /\ UNCHANGED mounted

ToggleMemoMode ==
    /\ mounted
    /\ Becomes(toggleMemoMode(App))
    /\ UNCHANGED mounted

KeyDown(key) ==
    /\ mounted
    /\ \E n \in {handleKeyDown(App, key)} :
           InBounds(n) /\ InClickCells(n) /\ Becomes(n)
    /\ UNCHANGED mounted

\* handleReset, confirmed, and the button of the overlay shown when the
\* game is complete: startNewGame().
Reset(rng) ==
    /\ mounted
    /\ rng \in HaltingSeeds
    /\ Becomes(startNewGame(App, difficulty, rng))
    /\ UNCHANGED mounted

ChangeDifficulty(diff, rng) ==
    /\ mounted
    /\ rng \in HaltingSeeds
    /\ Becomes(changeDifficulty(App, diff, rng))
    /\ UNCHANGED mounted

\* A new session replaces the current one.
NewSession ==
    \/ \E rng \in Seeds : Mount(rng)
    \/ \E rng \in Seeds : Reset(rng)
    \/ \E diff \in Difficulties, rng \in Seeds : ChangeDifficulty(diff, rng)

Next ==
    \/ \E cell \in ClickCells : SelectCell(cell[1], cell[2])
    \/ \E num \in DigitChoices(App) : NumberInput(num)
    \/ Erase
    \/ ToggleMemoMode
    \/ \E key \in KeysPressed(App) : KeyDown(key)
    \/ NewSession

Spec == Init /\ [][Next]_vars

\* ------------------------------------------- solveSudoku, step by step

\* Board b with the cells S made BLANK.
Blanked(b, S) ==
    [r \in Idx |-> [c \in Idx |-> IF <<r, c>> \in S THEN BLANK ELSE b[r][c]]]

\* The cells of column c of board b that hold digit d.
ColumnCellsOf(b, c, d) == {<<r, c>> : r \in {x \in Idx : b[x][c] = d}}

\* A board with no digit repeated in a row, column or box that no
\* assignment completes, made of the full board b: cells (0, 0) and (0, 2)
\* are BLANK and cell (0, 1) holds the digit b has at (0, 2), whose other
\* place in column 1 is BLANK too.  Row 0 lacks two digits and column 2
\* holds both.
DeadEnd(b) ==
    [Blanked(b, {<<0, 0>>, <<0, 2>>} \cup ColumnCellsOf(b, 1, b[0][2]))
        EXCEPT ![0][1] = b[0][2]]

\* The full boards the generator makes.
FullBoards == {Generated["Easy"][s].solution : s \in HaltingSeeds}

\* The boards solveSudoku is called with: the empty board, a full board,
\* the board generateFullBoard makes (row 0 only), a full board less its
\* last row, an Easy puzzle, and a board with a dead end.
SolveInputs ==
    {getEmptyBoard}
        \cup FullBoards
        \cup {[getEmptyBoard EXCEPT ![0] = b[0]] : b \in FullBoards}
        \cup {Blanked(b, {<<8, c>> : c \in Idx}) : b \in FullBoards}
        \cup {Generated["Easy"][s].puzzle : s \in HaltingSeeds}
        \cup {DeadEnd(b) : b \in FullBoards}

\* solveSudoku(b) is called, the component not being mounted.
SolveInit ==
    /\ mounted = FALSE
    /\ difficulty = UseState.difficulty
    /\ initialBoard = UseState.initialBoard
    /\ board = UseState.board
    /\ solution = UseState.solution
    /\ selectedCell = UseState.selectedCell
    /\ memos = UseState.memos
    /\ isMemoMode = UseState.isMemoMode
    /\ mistakes = UseState.mistakes
    /\ isComplete = UseState.isComplete
    /\ \E b \in SolveInputs, rng \in Seeds :
           /\ solveEntry = b
           /\ solveRun = SolveStart(b, rng)

\* What a step of solveSudoku leaves alone.
SolveKeeps ==
    UNCHANGED <<mounted, difficulty, initialBoard, board, solution, selectedCell,
                memos, isMemoMode, mistakes, isComplete, solveEntry>>

\* A call is entered: the scan for a BLANK cell.
SolveEnterCall ==
    /\ solveRun.pc = "call"
    /\ solveRun' = SolveStep(solveRun)
    /\ SolveKeeps

\* The candidate loop of the innermost call goes on.
SolveTryNext ==
    /\ solveRun.pc = "loop"
    /\ solveRun' = SolveStep(solveRun)
    /\ SolveKeeps

\* A call returns to its caller.
SolveReturn ==
    /\ solveRun.pc = "ret"
    /\ solveRun' = SolveStep(solveRun)
    /\ SolveKeeps

SolveNext == SolveEnterCall \/ SolveTryNext \/ SolveReturn

\* The call runs on until it returns.
SolveSpec == SolveInit /\ [][SolveNext]_vars /\ WF_vars(SolveNext)

\* ------------------------------------------------------------- properties

Cells == Idx \X Idx

\* The cells of the 3x3 box number k (0..8, row-major).
Box(k) == {<<3 * (k \div 3) + i, 3 * (k % 3) + j>> : i \in 0 .. 2, j \in 0 .. 2}

\* Every row, every column and every box of b holds exactly the digits
\* 1..9: nine cells holding nine distinct digits, each exactly once.
ValidGrid(b) ==
    /\ \A r \in Idx : {b[r][c] : c \in Idx} = Digits
    /\ \A c \in Idx : {b[r][c] : r \in Idx} = Digits
    /\ \A k \in Idx : {b[cell[1]][cell[2]] : cell \in Box(k)} = Digits

NonBlank(b) == {cell \in Cells : b[cell[1]][cell[2]] # BLANK}

\* C1: the solution board generatePuzzle returned, for every difficulty and
\* every seed of the random source, has no BLANK cell and every row, column
\* and 3x3 box of it holds each digit 1..9 exactly once.
C1_SolutionIsValidGrid ==
    mounted => NonBlank(solution) = Cells /\ ValidGrid(solution)

\* A game of the hardest difficulty whose solution has a shuffled first row.
C1_Witness ==
    /\ mounted
    /\ difficulty = "Hard"
    /\ <<solution[0][0], solution[0][1], solution[0][2]>> # <<1, 2, 3>>
    /\ ValidGrid(solution)

\* C2: when generatePuzzle returns, the puzzle has exactly 81 minus the
\* removal budget non-blank cells: 51 for Easy, 36 for Medium, 26 for Hard.
C2_GivenCount ==
    mounted =>
        Cardinality(NonBlank(initialBoard)) =
            IF difficulty = "Easy" THEN 51
            ELSE IF difficulty = "Medium" THEN 36
            ELSE 26

\* A Hard puzzle: 55 of the 81 cells were blanked, more than half, so the
\* removal loop has drawn blank cells again.
C2_Witness ==
    /\ mounted
    /\ difficulty = "Hard"
    /\ Cardinality(NonBlank(initialBoard)) = 26

\* C3: every non-blank cell of the puzzle generatePuzzle returned holds the
\* digit of the solution at that cell, and the removal has left the
\* solution whole: the cells blanked in the puzzle still hold their digits
\* in the solution.
C3_PuzzleAgreesWithSolution ==
    mounted =>
        /\ \A cell \in NonBlank(initialBoard) :
               initialBoard[cell[1]][cell[2]] = solution[cell[1]][cell[2]]
        /\ \A cell \in Cells \ NonBlank(initialBoard) :
               solution[cell[1]][cell[2]] \in Digits

\* A fresh Medium game: the puzzle has cells removed and cells kept.
C3_Witness ==
    /\ mounted
    /\ difficulty = "Medium"
    /\ board = initialBoard
    /\ NonBlank(initialBoard) # {}
    /\ NonBlank(initialBoard) # Cells
    /\ NonBlank(solution) = Cells

\* C4: within a session every given cell (non-blank in the generated
\* puzzle) holds in board the value it had when the session was created,
\* and that value is the solution's at that cell, whatever the player has
\* selected, typed, erased or toggled.
C4_GivenCellsImmutable ==
    mounted =>
        \A cell \in NonBlank(initialBoard) :
            /\ board[cell[1]][cell[2]] = initialBoard[cell[1]][cell[2]]
            /\ board[cell[1]][cell[2]] = solution[cell[1]][cell[2]]

\* The player has a given cell selected, in a game where digits have been
\* typed (a mistake is counted) and with memo mode on.
C4_Witness ==
    /\ mounted
    /\ selectedCell # NULL
    /\ selectedCell \in NonBlank(initialBoard)
    /\ mistakes > 0
    /\ isMemoMode

\* C5: in every state of a session (the mount effect has run), isComplete
\* is true if and only if board equals solution cell for cell.
C5_CompleteIffSolved ==
    mounted => (isComplete <=> board = solution)

\* A session the player has completed.
C5_Witness ==
    /\ mounted
    /\ isComplete
    /\ board = solution
    /\ board # initialBoard

\* The value of board b at the selected cell.
AtSelected(b) == b[selectedCell[1]][selectedCell[2]]

\* A session with a cell selected that is not a given cell.
Editable ==
    /\ mounted
    /\ selectedCell # NULL
    /\ AtSelected(initialBoard) = BLANK

SelectedKey == MemoKey(selectedCell[1], selectedCell[2])

\* The statement of C6 as the specification has it: memos holds no entry
\* for a cell whose value in board is not BLANK.
C6_NoEntryOnFilledCell ==
    \A cell \in NonBlank(board) : MemoKey(cell[1], cell[2]) \notin DOMAIN memos

\* C6, amended: memos never holds an entry for a given cell, and whenever
\* the digit of the solution is placed in a cell (memo mode off), the entry
\* of that cell is removed from memos.
C6_EntryClearedByCorrectDigit ==
    /\ [](\A cell \in NonBlank(initialBoard) :
              MemoKey(cell[1], cell[2]) \notin DOMAIN memos)
    /\ [][(/\ Editable
           /\ ~isComplete
           /\ ~isMemoMode
           /\ AtSelected(board) # AtSelected(solution)
           /\ NumberInput(AtSelected(solution)))
          => SelectedKey \notin DOMAIN memos']_vars

\* The selected cell has a digit noted in memos and does not hold the digit
\* of the solution; placing that digit removes the entry.
C6_Witness ==
    /\ Editable
    /\ ~isComplete
    /\ ~isMemoMode
    /\ AtSelected(board) # AtSelected(solution)
    /\ SelectedKey \in DOMAIN memos
    /\ memos[SelectedKey] # <<>>
    /\ SelectedKey \notin DOMAIN handleNumberInput(App, AtSelected(solution)).memos

\* placeDigit(num) is a wrong placement: the game is in progress, memo mode
\* is off, a cell that is not given is selected, it does not hold num, and
\* num is not the digit of the solution there.
WrongPlacement(num) ==
    /\ Editable
    /\ ~isComplete
    /\ ~isMemoMode
    /\ AtSelected(board) # num
    /\ AtSelected(solution) # num

\* C7: within a session (every step but the start of a new game) mistakes
\* changes only by a handleNumberInput call that is a wrong placement, and
\* then grows by exactly 1; every wrong placement makes it grow by 1; every
\* other call leaves it as it is.
C7_MistakesCountWrongPlacements ==
    [][/\ mistakes' # mistakes
            => \/ NewSession
               \/ /\ mistakes' = mistakes + 1
                  /\ \E num \in DigitChoices(App) :
                         WrongPlacement(num) /\ NumberInput(num)
       /\ \A num \in DigitChoices(App) :
              (WrongPlacement(num) /\ NumberInput(num)) => mistakes' = mistakes + 1
      ]_vars

\* Two mistakes are counted and a wrong digit sits in the selected cell.
C7_Witness ==
    /\ Editable
    /\ mistakes = 2
    /\ AtSelected(board) \notin {BLANK, AtSelected(solution)}

\* The precondition of the toggle law: memo mode off, the game in progress,
\* a blank cell that is not given selected.
TogglePre ==
    /\ Editable
    /\ ~isComplete
    /\ ~isMemoMode
    /\ AtSelected(board) = BLANK

\* placeDigit(d) followed immediately by placeDigit(d).
Twice(d) == handleNumberInput(handleNumberInput(App, d), d)

\* mistakes after the two calls: one more if d is wrong, and the second call
\* adds nothing.
ToggleMistakes(d) ==
    /\ Twice(d).mistakes =
           mistakes + (IF d # AtSelected(solution) THEN 1 ELSE 0)
    /\ Twice(d).mistakes = handleNumberInput(App, d).mistakes

\* The statement of C8 as the specification has it: placeDigit(d) twice on
\* a blank cell leaves the cell BLANK, and mistakes grows by 1 if d is wrong
\* and by 0 otherwise, nothing of it by the second call.
C8_ToggleLaw ==
    TogglePre =>
        \A d \in Digits :
            /\ Twice(d).board[selectedCell[1]][selectedCell[2]] = BLANK
            /\ ToggleMistakes(d)

\* C8, amended: placeDigit(d) twice on a blank cell leaves the cell BLANK
\* unless the first call completed the board, in which case the second call
\* does nothing and the cell holds d; mistakes grows by 1 if d is wrong and
\* by 0 otherwise, nothing of it by the second call.
C8_ToggleLawUnlessComplete ==
    TogglePre =>
        \A d \in Digits :
            /\ Twice(d).board[selectedCell[1]][selectedCell[2]] =
                   IF handleNumberInput(App, d).isComplete THEN d ELSE BLANK
            /\ ToggleMistakes(d)

\* The selected cell is the last blank cell and the others are right: the
\* digit of the solution completes the board.
C8_Witness ==
    /\ TogglePre
    /\ handleNumberInput(App, AtSelected(solution)).isComplete
    /\ Twice(AtSelected(solution)).board = solution

\* C9: once isComplete is true, handleNumberInput (any digit) and
\* handleErase change nothing, and every step but the start of a new game
\* leaves isComplete true and board, memos and mistakes as they are.
C9_CompleteIsTerminal ==
    [][isComplete
         => /\ \A d \in Digits : handleNumberInput(App, d) = App
            /\ handleErase(App) = App
            /\ \/ NewSession
               \/ /\ isComplete'
                  /\ board' = board
                  /\ memos' = memos
                  /\ mistakes' = mistakes
      ]_vars

\* A completed game with a cell the player filled in selected, in which the
\* player has since turned memo mode on.
C9_Witness ==
    /\ Editable
    /\ isComplete
    /\ isMemoMode

\* The session as test scaffolding sets it: board equal to solution cell
\* for cell, isComplete still false.
Scaffold(st) == [st EXCEPT !.board = st.solution, !.isComplete = FALSE]

\* board differs from solution at the selected cell and nowhere else.
OneCellLeft ==
    \A cell \in Cells :
        (board[cell[1]][cell[2]] # solution[cell[1]][cell[2]]) <=> (cell = selectedCell)

\* The statement of C10 as the specification has it: with board equal to
\* solution and isComplete false, some handleNumberInput call that reaches
\* the completion check (memo mode off, a cell that is not given selected)
\* makes isComplete true.
C10_DetectionOnSolvedBoard ==
    (Editable /\ ~isMemoMode) =>
        \E d \in Digits : handleNumberInput(Scaffold(App), d).isComplete

\* C10, amended: with board equal to solution everywhere but at the
\* selected cell, which is not given, placing the digit of the solution
\* there (memo mode off) makes isComplete true; with board already equal to
\* solution and isComplete false, no handleNumberInput call makes
\* isComplete true, since a call that reaches the completion check has
\* changed the selected cell first.
C10_DetectionOnLastCell ==
    /\ (Editable /\ ~isMemoMode /\ ~isComplete /\ OneCellLeft)
           => handleNumberInput(App, AtSelected(solution)).isComplete
    /\ mounted
           => \A d \in Digits : ~handleNumberInput(Scaffold(App), d).isComplete

\* One cell is left, selected, with a wrong digit in it.
C10_Witness ==
    /\ Editable
    /\ ~isMemoMode
    /\ ~isComplete
    /\ OneCellLeft
    /\ AtSelected(board) # BLANK

\* The session is the fresh one made of what generatePuzzle(difficulty)
\* returned for some seed: the puzzle as board and as initialBoard, its
\* solution, no mistake, no memo, no selection, not complete.
FreshSession ==
    /\ mistakes = 0
    /\ memos = <<>>
    /\ selectedCell = NULL
    /\ ~isComplete
    /\ board = initialBoard
    /\ \E s \in HaltingSeeds :
           /\ initialBoard = Generated[difficulty][s].puzzle
           /\ solution = Generated[difficulty][s].solution

\* C11: every start of a new game (the mount, a reset, the button shown on
\* completion, a change of difficulty), from a game in progress or a
\* complete one, leaves mistakes 0, memos empty, no cell selected,
\* isComplete false, and board and initialBoard both equal to the puzzle
\* generatePuzzle returned for the difficulty: nothing of the board, memos
\* or mistakes of the game before is left.
C11_NewSessionIsFresh ==
    [][NewSession => FreshSession']_vars

\* A complete game in which mistakes were counted and a memo was noted,
\* from which startNewGame gives a fresh puzzle.
C11_Witness ==
    /\ mounted
    /\ isComplete
    /\ mistakes > 0
    /\ memos # <<>>
    /\ startNewGame(App, difficulty, 0).mistakes = 0
    /\ startNewGame(App, difficulty, 0).board = Generated[difficulty][0].puzzle

\* toggleMemoMode: the state with isMemoMode flipped and nothing else changed.
MemoModeFlipped == [App EXCEPT !.isMemoMode = ~isMemoMode]

\* C12: in every state of a session, with or without a selection, complete
\* or not, toggleMemoMode (the memo button, the M key) flips isMemoMode and
\* changes nothing else, so that two calls restore the whole state.
C12_ToggleMemoModeAlwaysLegal ==
    mounted =>
        /\ toggleMemoMode(App) = MemoModeFlipped
        /\ toggleMemoMode(toggleMemoMode(App)) = App
        /\ \A key \in MemoKeys :
               /\ handleKeyDown(App, key) = MemoModeFlipped
               /\ handleKeyDown(handleKeyDown(App, key), key) = App

\* The cells of the row, the column and the 3x3 box of cell (r, c).
Peers(r, c) ==
    {<<r, x>> : x \in Idx} \cup {<<x, c>> : x \in Idx}
        \cup Box(3 * (r \div 3) + (c \div 3))

\* Digit d is in board b at one of the cells S.
OccursIn(b, S, d) == \E cell \in S : b[cell[1]][cell[2]] = d

\* The statement of C13 as the specification has it, on the boards of the
\* session at the selected cell: isSafe is false if and only if the digit
\* occurs elsewhere in the row, the column or the box of the cell.
C13_IsSafeLooksElsewhere ==
    (mounted /\ selectedCell # NULL) =>
        \A d \in Digits :
            isSafe(board, selectedCell[1], selectedCell[2], d)
                <=> ~OccursIn(board,
                              Peers(selectedCell[1], selectedCell[2]) \ {selectedCell},
                              d)

\* C13, amended: isSafe(board, row, col, num) is false if and only if num
\* occurs in the row, the column or the 3x3 box of (row, col), the cell
\* (row, col) itself included; on a board whose cell (row, col) holds num
\* it is false.
C13_IsSafeLooksAtOwnCell ==
    (mounted /\ selectedCell # NULL) =>
        \A d \in Digits :
            isSafe(board, selectedCell[1], selectedCell[2], d)
                <=> ~OccursIn(board, Peers(selectedCell[1], selectedCell[2]), d)

\* The selected cell holds a digit that occurs nowhere else in its row,
\* column and box, and isSafe refuses that digit there.
C13_Witness ==
    /\ mounted
    /\ selectedCell # NULL
    /\ AtSelected(board) # BLANK
    /\ ~OccursIn(board, Peers(selectedCell[1], selectedCell[2]) \ {selectedCell},
                 AtSelected(board))
    /\ ~isSafe(board, selectedCell[1], selectedCell[2], AtSelected(board))

\* No digit is twice in a row, a column or a box of b.
ValidPartial(b) ==
    \A cell \in NonBlank(b) :
        ~OccursIn(b, Peers(cell[1], cell[2]) \ {cell}, b[cell[1]][cell[2]])

\* Board b is full, keeps the rules and has the digits of e where e has one.
Extends(b, e) ==
    /\ NonBlank(b) = Cells
    /\ ValidGrid(b)
    /\ \A cell \in NonBlank(e) : b[cell[1]][cell[2]] = e[cell[1]][cell[2]]

\* Board e with its BLANK cells filled as f says.
Fill(e, f) ==
    [r \in Idx |-> [c \in Idx |-> IF e[r][c] = BLANK THEN f[<<r, c>>] ELSE e[r][c]]]

\* Some assignment of digits to the BLANK cells of e keeps the rules.
HasCompletion(e) == \E f \in [Cells \ NonBlank(e) -> Digits] : ValidGrid(Fill(e, f))

\* C14: when solveSudoku, called with a board that repeats no digit in a
\* row, column or box, has returned: if it returned true the board is full,
\* keeps the rules and agrees with the board on entry at every cell that
\* was not BLANK (so a completion exists); if it returned false no
\* assignment of the BLANK cells of the board on entry keeps the rules.
C14_SolveDecidesCompletion ==
    (solveRun.pc = "done" /\ ValidPartial(solveEntry)) =>
        IF solveRun.ok THEN Extends(solveRun.board, solveEntry)
        ELSE ~HasCompletion(solveEntry)

\* solveSudoku has returned true on a board that had digits and BLANK cells
\* not all of them in row 0.
C14_Witness ==
    /\ solveRun.pc = "done"
    /\ solveRun.ok
    /\ ValidPartial(solveEntry)
    /\ \E cell \in NonBlank(solveEntry) : cell[1] > 0
    /\ NonBlank(solveEntry) # Cells
    /\ Extends(solveRun.board, solveEntry)

\* The BLANK cells of the board on entry that hold a digit now.
FilledSinceEntry == NonBlank(solveRun.board) \ NonBlank(solveEntry)

\* The call on top of the stack.
TopFrame == solveRun.stack[Len(solveRun.stack)]

\* Every call that is active has filled one BLANK cell more than its
\* caller: the cells filled since entry are as many as the calls that have
\* placed a candidate (the innermost has not while it is choosing one).
SolveProgress ==
    /\ solveRun.pc = "call" => Cardinality(FilledSinceEntry) = Len(solveRun.stack)
    /\ solveRun.pc = "loop" => Cardinality(FilledSinceEntry) = Len(solveRun.stack) - 1
    /\ (solveRun.pc = "ret" /\ ~solveRun.ok) =>
           Cardinality(FilledSinceEntry) = Len(solveRun.stack)
    /\ (solveRun.pc \in {"ret", "done"} /\ solveRun.ok) => NonBlank(solveRun.board) = Cells
    /\ solveRun.pc = "done" => Len(solveRun.stack) = 0

\* The innermost call is choosing a candidate and isSafe accepts none of
\* those it has left.
NoViableDigit ==
    /\ solveRun.pc = "loop"
    /\ SafeAfter(solveRun.board, TopFrame.row, TopFrame.col, TopFrame.nums, TopFrame.i) = {}

\* C18: solveSudoku returns on every input board, for every order of the
\* candidates: each active call has filled one more BLANK cell than its
\* caller, a call whose cell has no candidate left that isSafe accepts
\* returns false without touching the board, and the outermost call
\* returns in the end.
C18_SolveTerminates ==
    /\ []SolveProgress
    /\ [][NoViableDigit =>
            /\ solveRun'.pc = "ret"
            /\ ~solveRun'.ok
            /\ solveRun'.board = solveRun.board
            /\ Len(solveRun'.stack) = Len(solveRun.stack) - 1]_vars
    /\ <>(solveRun.pc = "done")

\* The outermost call has returned, called with the empty board.
C18_Witness ==
    /\ solveRun.pc = "done"
    /\ NonBlank(solveEntry) = {}
    /\ NonBlank(solveRun.board) = Cells

\* The digits the calls that are active have placed at a cell.
PlacedAt(cell) ==
    {solveRun.stack[i].nums[solveRun.stack[i].i] :
        i \in {k \in 1 .. Len(solveRun.stack) :
                  solveRun.stack[k].row = cell[1] /\ solveRun.stack[k].col = cell[2]}}

\* A call has just returned false (to its caller, or the outermost call).
ReturnedFalse == solveRun.pc \in {"ret", "done"} /\ ~solveRun.ok

\* C19: at every step of solveSudoku every cell that was not BLANK on entry
\* holds the digit it held; and when a call returns false the board is the
\* board that call was entered with: the board on entry of the outermost
\* call with nothing added but the digits its callers have placed, which is
\* the board on entry itself when the outermost call returns.
C19_FalseLeavesBoardAsEntered ==
    /\ \A cell \in NonBlank(solveEntry) :
           solveRun.board[cell[1]][cell[2]] = solveEntry[cell[1]][cell[2]]
    /\ ReturnedFalse =>
           \A cell \in Cells \ NonBlank(solveEntry) :
               solveRun.board[cell[1]][cell[2]] \in
                   (IF PlacedAt(cell) = {} THEN {BLANK} ELSE PlacedAt(cell))
    /\ (solveRun.pc = "done" /\ ~solveRun.ok) => solveRun.board = solveEntry

\* The outermost call has returned false on a board with digits and BLANK
\* cells, after a search that placed a digit and took it back: the random
\* source has been drawn from by more calls than the outermost one.
C19_Witness ==
    /\ solveRun.pc = "done"
    /\ ~solveRun.ok
    /\ solveRun.board = solveEntry
    /\ NonBlank(solveEntry) # {}
    /\ \A s \in Seeds : solveRun.rng # SolveStep(SolveStart(solveEntry, s)).rng

\* The digits of a list.
SetOf(seq) == {seq[i] : i \in 1 .. Len(seq)}

\* The annotations of a cell in session st: memos[key] || [].
CellMemos(st, cell) == MemosAt(st.memos, MemoKey(cell[1], cell[2]))

\* Sessions st and n have the same annotations at every cell but the
\* selected one: at every key either of them has but that of the cell.
OtherMemosKept(st, n) ==
    \A key \in (DOMAIN st.memos \cup DOMAIN n.memos)
                   \ {MemoKey(st.selectedCell[1], st.selectedCell[2])} :
        MemosAt(n.memos, key) = MemosAt(st.memos, key)

\* A game in progress with memo mode on and a cell selected that is not given.
MemoPre ==
    /\ Editable
    /\ ~isComplete
    /\ isMemoMode

\* C15: in a game in progress with memo mode on and a cell selected that
\* is not given, handleNumberInput(d) removes d from the annotations of the
\* selected cell if it is there and adds it if not, the list never holding a
\* digit twice; the annotations of the other cells, board, mistakes and
\* isComplete stay as they are; and a second call with the same d gives the
\* selected cell the set of annotations it had.
C15_MemoToggle ==
    MemoPre =>
        \A d \in Digits : \A n \in {handleNumberInput(App, d)} :
            /\ SetOf(CellMemos(n, selectedCell)) =
                   (IF d \in SetOf(CellMemos(App, selectedCell))
                    THEN SetOf(CellMemos(App, selectedCell)) \ {d}
                    ELSE SetOf(CellMemos(App, selectedCell)) \cup {d})
            /\ Len(CellMemos(n, selectedCell)) = Cardinality(SetOf(CellMemos(n, selectedCell)))
            /\ OtherMemosKept(App, n)
            /\ n.board = board
            /\ n.mistakes = mistakes
            /\ n.isComplete = isComplete
            /\ SetOf(CellMemos(handleNumberInput(n, d), selectedCell)) =
                   SetOf(CellMemos(App, selectedCell))

\* Memo mode is on, the selected cell has an annotation and so has another
\* cell.
C15_Witness ==
    /\ MemoPre
    /\ CellMemos(App, selectedCell) # <<>>
    /\ \E cell \in Cells \ {selectedCell} : CellMemos(App, cell) # <<>>

\* C16: in a game in progress with a cell selected that is not given,
\* handleErase makes that cell of board BLANK and changes nothing else
\* (no other cell, not memos, mistakes, selectedCell, isMemoMode or
\* isComplete); with no cell selected or a given cell selected it changes
\* nothing; and it never makes isComplete true.
C16_EraseClearsOneCell ==
    mounted =>
        /\ (Editable /\ ~isComplete) =>
               handleErase(App) =
                   [App EXCEPT !.board[selectedCell[1]][selectedCell[2]] = BLANK]
        /\ (selectedCell = NULL \/ AtSelected(initialBoard) # BLANK) =>
               handleErase(App) = App
        /\ ~isComplete => ~handleErase(App).isComplete

\* A game in progress with annotations, the selected cell holding a digit
\* the player has put there.
C16_Witness ==
    /\ Editable
    /\ ~isComplete
    /\ AtSelected(board) # BLANK
    /\ SelectedKey \in DOMAIN memos
    /\ handleErase(App).board # board

\* Memo mode is off and the selected cell is BLANK and not given.
CorrectDigitPre ==
    /\ Editable
    /\ ~isMemoMode
    /\ AtSelected(board) = BLANK

\* C17: with memo mode off and a BLANK cell selected that is not given,
\* handleNumberInput of the digit solution has at that cell leaves memos
\* without an entry for the cell, whatever the entry held, and with the
\* entries of all other cells as they were.
C17_CorrectDigitClearsOwnAnnotations ==
    CorrectDigitPre =>
        \A n \in {handleNumberInput(App, AtSelected(solution))} :
            /\ AtSelected(n.board) = AtSelected(solution)
            /\ SelectedKey \notin DOMAIN n.memos
            /\ DOMAIN n.memos = DOMAIN memos \ {SelectedKey}
            /\ \A key \in DOMAIN n.memos : n.memos[key] = memos[key]

\* The selected cell has annotations and so has another cell.
C17_Witness ==
    /\ CorrectDigitPre
    /\ MemosAt(memos, SelectedKey) # <<>>
    /\ \E key \in DOMAIN memos \ {SelectedKey} : memos[key] # <<>>
    /\ handleNumberInput(App, AtSelected(solution)).memos # memos

\* The cells of board that hold a digit other than that of solution.
WrongCells ==
    {cell \in Cells : /\ board[cell[1]][cell[2]] # BLANK
                      /\ board[cell[1]][cell[2]] # solution[cell[1]][cell[2]]}

\* C20: in every state of a session the cells of board that hold a digit
\* other than that of solution are no more than mistakes.
C20_WrongCellsWithinMistakes == Cardinality(WrongCells) <= mistakes

\* Two wrong digits are on the board and both are counted.
C20_Witness ==
    /\ mounted
    /\ Cardinality(WrongCells) = 2
    /\ mistakes = 2
====
